---- MODULE Spec2Model ----
(***************************************************************************)
(* Model of the livewire component protocol of copper's chttp package:     *)
(* HTMLRenderer.livewireInitial / HTMLRenderer.livewireUpdate, the HTML    *)
(* helper updateHTML and the content hash htmlHash.                        *)
(*                                                                         *)
(* Text (template.HTML, JSON text) is modelled as a sequence of bytes      *)
(* (naturals 0..255).  JSON documents that the code only decodes are       *)
(* modelled in decoded form: a function from keys to typed values.         *)
(***************************************************************************)
EXTENDS Integers, Sequences, FiniteSets, TLC

(***************************************************************************)
(* Bounds of the model.                                                    *)
(***************************************************************************)
\* longest message.updates list a client composes
MaxUpdates == 2
\* largest Count a component data value reaches (Go's int is unbounded here)
MaxCount == 2

(***************************************************************************)
(* hash/crc32.ChecksumIEEE, used by htmlHash.  A 32-bit word is kept as    *)
(* two 16-bit halves <<hi, lo>>.  Tables are 1-based: entry i + 1 is the   *)
(* value for i.                                                            *)
(***************************************************************************)
\* a XOR b for two 4-bit values: NibbleXor[a + 1][b + 1]
NibbleXor ==
    << <<0, 1, 2, 3, 4, 5, 6, 7, 8, 9, 10, 11, 12, 13, 14, 15>>,
       <<1, 0, 3, 2, 5, 4, 7, 6, 9, 8, 11, 10, 13, 12, 15, 14>>,
       <<2, 3, 0, 1, 6, 7, 4, 5, 10, 11, 8, 9, 14, 15, 12, 13>>,
       <<3, 2, 1, 0, 7, 6, 5, 4, 11, 10, 9, 8, 15, 14, 13, 12>>,
       <<4, 5, 6, 7, 0, 1, 2, 3, 12, 13, 14, 15, 8, 9, 10, 11>>,
       <<5, 4, 7, 6, 1, 0, 3, 2, 13, 12, 15, 14, 9, 8, 11, 10>>,
       <<6, 7, 4, 5, 2, 3, 0, 1, 14, 15, 12, 13, 10, 11, 8, 9>>,
       <<7, 6, 5, 4, 3, 2, 1, 0, 15, 14, 13, 12, 11, 10, 9, 8>>,
       <<8, 9, 10, 11, 12, 13, 14, 15, 0, 1, 2, 3, 4, 5, 6, 7>>,
       <<9, 8, 11, 10, 13, 12, 15, 14, 1, 0, 3, 2, 5, 4, 7, 6>>,
       <<10, 11, 8, 9, 14, 15, 12, 13, 2, 3, 0, 1, 6, 7, 4, 5>>,
       <<11, 10, 9, 8, 15, 14, 13, 12, 3, 2, 1, 0, 7, 6, 5, 4>>,
       <<12, 13, 14, 15, 8, 9, 10, 11, 4, 5, 6, 7, 0, 1, 2, 3>>,
       <<13, 12, 15, 14, 9, 8, 11, 10, 5, 4, 7, 6, 1, 0, 3, 2>>,
       <<14, 15, 12, 13, 10, 11, 8, 9, 6, 7, 4, 5, 2, 3, 0, 1>>,
       <<15, 14, 13, 12, 11, 10, 9, 8, 7, 6, 5, 4, 3, 2, 1, 0>> >>

Xor8(a, b) ==
    16 * NibbleXor[(a \div 16) + 1][(b \div 16) + 1]
    + NibbleXor[(a % 16) + 1][(b % 16) + 1]

Xor16(a, b) == 256 * Xor8(a \div 256, b \div 256) + Xor8(a % 256, b % 256)

Xor32(x, y) == <<Xor16(x[1], y[1]), Xor16(x[2], y[2])>>

Shr8(x) == <<x[1] \div 256, (x[2] \div 256) + (x[1] % 256) * 256>>

\* crc32.IEEETable (polynomial 0xedb88320), entry b + 1 for byte b
IEEETable ==
    << <<0, 0>>, <<30471, 12438>>, <<60942, 24876>>, <<39177, 20922>>,
       <<1901, 50201>>, <<28778, 62607>>, <<59747, 42293>>, <<40548, 38307>>,
       <<3803, 34866>>, <<31196, 47268>>, <<57557, 59678>>, <<38866, 55688>>,
       <<2486, 19499>>, <<32433, 31933>>, <<59320, 11527>>, <<37055, 7569>>,
       <<7607, 4196>>, <<27312, 8434>>, <<62393, 29000>>, <<33982, 16862>>,
       <<6874, 54397>>, <<28125, 58603>>, <<62676, 46417>>, <<33747, 34247>>,
       <<4972, 38998>>, <<25707, 43200>>, <<64866, 63866>>, <<35429, 51692>>,
       <<5121, 23631>>, <<25350, 27865>>, <<64015, 15715>>, <<36104, 3573>>,
       <<15214, 8392>>, <<19561, 4190>>, <<54624, 16868>>, <<41575, 29042>>,
       <<15363, 58577>>, <<19204, 54343>>, <<53773, 34301>>, <<42250, 46443>>,
       <<13749, 43258>>, <<17074, 39020>>, <<56251, 51670>>, <<44220, 63808>>,
       <<13016, 27875>>, <<17887, 23669>>, <<56534, 3535>>, <<43985, 15705>>,
       <<9945, 12460>>, <<20958, 58>>, <<51415, 20864>>, <<49104, 24854>>,
       <<8628, 62645>>, <<22195, 50211>>, <<53178, 38297>>, <<47293, 42255>>,
       <<10242, 47262>>, <<24325, 34824>>, <<50700, 55730>>, <<45323, 59684>>,
       <<12143, 31879>>, <<22632, 19473>>, <<49505, 7595>>, <<46694, 11581>>,
       <<30428, 16784>>, <<475, 28934>>, <<39122, 8380>>, <<61397, 4138>>,
       <<29105, 34185>>, <<1718, 46367>>, <<40895, 58533>>, <<59576, 54323>>,
       <<30727, 51618>>, <<3840, 63796>>, <<38409, 43150>>, <<57614, 38936>>,
       <<32618, 3515>>, <<2157, 15661>>, <<37220, 27799>>, <<58979, 23553>>,
       <<27499, 20980>>, <<7276, 24930>>, <<34149, 12504>>, <<62050, 78>>,
       <<27654, 38381>>, <<6913, 42363>>, <<33288, 62657>>, <<62735, 50263>>,
       <<26032, 55750>>, <<4791, 59728>>, <<35774, 47338>>, <<64697, 34940>>,
       <<25309, 7647>>, <<5594, 11593>>, <<36051, 31987>>, <<64468, 19557>>,
       <<19890, 24920>>, <<15029, 20942>>, <<41916, 116>>, <<54459, 12514>>,
       <<19167, 42305>>, <<15832, 38359>>, <<42193, 50285>>, <<54230, 62715>>,
       <<17257, 59754>>, <<13422, 55804>>, <<44391, 34886>>, <<55904, 47312>>,
       <<17412, 11635>>, <<13059, 7653>>, <<43530, 19551>>, <<56589, 31945>>,
       <<20485, 28988>>, <<9986, 16810>>, <<48651, 4112>>, <<51468, 8326>>,
       <<22376, 46373>>, <<8303, 34227>>, <<47462, 54281>>, <<52833, 58527>>,
       <<24286, 63758>>, <<10713, 51608>>, <<45264, 38946>>, <<51159, 43188>>,
       <<22963, 15639>>, <<11956, 3457>>, <<47037, 23611>>, <<49338, 27821>>,
       <<60856, 33568>>, <<39615, 46006>>, <<950, 57868>>, <<29873, 53914>>,
       <<60117, 18233>>, <<40402, 30639>>, <<1243, 9749>>, <<29660, 5763>>,
       <<58211, 2834>>, <<37988, 15236>>, <<3437, 27198>>, <<31338, 23208>>,
       <<58382, 53003>>, <<37641, 65437>>, <<2560, 44583>>, <<32007, 40625>>,
       <<61455, 37700>>, <<34568, 41938>>, <<7681, 62056>>, <<26886, 49918>>,
       <<63330, 22365>>, <<32869, 26571>>, <<6508, 13937>>, <<28267, 1767>>,
       <<65236, 7030>>, <<35283, 11232>>, <<4314, 31322>>, <<26589, 19148>>,
       <<63929, 57199>>, <<36542, 61433>>, <<6071, 48707>>, <<24752, 36565>>,
       <<54998, 41960>>, <<41425, 37758>>, <<14552, 49860>>, <<20447, 62034>>,
       <<53691, 26609>>, <<42684, 22375>>, <<16309, 1757>>, <<18610, 13899>>,
       <<55309, 11226>>, <<44810, 6988>>, <<13827, 19190>>, <<16644, 31328>>,
       <<57184, 61379>>, <<43111, 57173>>, <<12654, 36591>>, <<18025, 48761>>,
       <<52065, 45964>>, <<48230, 33562>>, <<9583, 53920>>, <<21096, 57910>>,
       <<52236, 30613>>, <<47883, 18179>>, <<8706, 5817>>, <<21765, 9775>>,
       <<50618, 15294>>, <<45757, 2856>>, <<11188, 23186>>, <<23731, 27140>>,
       <<49879, 65447>>, <<46544, 53041>>, <<11481, 40587>>, <<23518, 44573>>,
       <<39780, 49840>>, <<60515, 61990>>, <<30058, 41884>>, <<621, 37642>>,
       <<39945, 1705>>, <<60174, 13887>>, <<29191, 26501>>, <<1280, 22291>>,
       <<38335, 19074>>, <<58040, 31252>>, <<31665, 11182>>, <<3254, 6968>>,
       <<37586, 36507>>, <<58837, 48653>>, <<31964, 61367>>, <<3035, 57121>>,
       <<34515, 53972>>, <<61908, 57922>>, <<26845, 46072>>, <<8154, 33646>>,
       <<33214, 5837>>, <<63161, 9819>>, <<28592, 30689>>, <<6327, 18295>>,
       <<34824, 23270>>, <<65295, 27248>>, <<26118, 15306>>, <<4353, 2908>>,
       <<36709, 40703>>, <<63586, 44649>>, <<24939, 65491>>, <<5740, 53061>>,
       <<40970, 57976>>, <<55053, 53998>>, <<19972, 33620>>, <<14595, 46018>>,
       <<42855, 9825>>, <<53344, 5879>>, <<18793, 18253>>, <<15982, 30683>>,
       <<44753, 27210>>, <<55766, 23260>>, <<16607, 2918>>, <<14296, 15344>>,
       <<43452, 44627>>, <<57019, 40645>>, <<18354, 53119>>, <<12469, 65513>>,
       <<48573, 61980>>, <<51898, 49802>>, <<21427, 37680>>, <<9396, 41894>>,
       <<47824, 13829>>, <<52695, 1683>>, <<21726, 22313>>, <<9177, 26559>>,
       <<45926, 31278>>, <<50273, 19128>>, <<23912, 6914>>, <<10863, 11156>>,
       <<46091, 48695>>, <<49932, 36513>>, <<23045, 57115>>, <<11522, 61325>> >>

\* crc = IEEETable[byte(crc) ^ b] ^ (crc >> 8) for the bytes lo..hi, in order
RECURSIVE CrcUpdate(_, _, _, _)
CrcUpdate(crc, bytes, lo, hi) ==
    IF lo > hi THEN crc
    ELSE IF lo = hi
    THEN Xor32(IEEETable[Xor8(crc[2] % 256, bytes[lo]) + 1], Shr8(crc))
    ELSE LET mid == (lo + hi) \div 2
             left == CrcUpdate(crc, bytes, lo, mid)
         IN IF left[1] < 0 THEN left ELSE CrcUpdate(left, bytes, mid + 1, hi)

ChecksumIEEE(bytes) ==
    Xor32(CrcUpdate(<<65535, 65535>>, bytes, 1, Len(bytes)), <<65535, 65535>>)

\* fmt.Sprintf("%08x", w): eight lower-case hexadecimal digits, as ASCII bytes
HexDigit(d) == IF d < 10 THEN 48 + d ELSE 87 + d

Hex4(h) == <<HexDigit(h \div 4096), HexDigit((h \div 256) % 16),
             HexDigit((h \div 16) % 16), HexDigit(h % 16)>>

Sprintf08x(w) == Hex4(w[1]) \o Hex4(w[2])

\* a faulty hash that leaves out the last byte; HashStable tells it from htmlHash
htmlHashShort(h) == Sprintf08x(ChecksumIEEE(SubSeq(h, 1, Len(h) - 1)))

htmlHash(h) == Sprintf08x(ChecksumIEEE(h))


(***************************************************************************)
(* Text helpers.  Go strings are byte sequences; the names of components,  *)
(* fields, keys and methods are kept as TLA+ strings and turned into bytes *)
(* where the code writes them into text.                                   *)
(***************************************************************************)
Text(s) ==
    CASE s = "Counter" -> <<67, 111, 117, 110, 116, 101, 114>>
      [] s = "Parent"  -> <<80, 97, 114, 101, 110, 116>>
      [] s = "Orphan"  -> <<79, 114, 112, 104, 97, 110>>
      [] s = "Ghost"   -> <<71, 104, 111, 115, 116>>
      [] s = "count"   -> <<99, 111, 117, 110, 116>>
      [] s = "note"    -> <<110, 111, 116, 101>>
      [] s = "title"   -> <<116, 105, 116, 108, 101>>
      [] s = "extra"   -> <<101, 120, 116, 114, 97>>
      [] s = "/"       -> <<47>>
      [] s = "GET"     -> <<71, 69, 84>>
      [] s = "G T"     -> <<71, 32, 84>>
      [] s = "en"      -> <<101, 110>>
      [] s = "aaa"     -> <<97, 97, 97>>
      [] OTHER         -> <<>>

RECURSIVE Concat(_)
Concat(parts) == IF parts = <<>> THEN <<>> ELSE Head(parts) \o Concat(Tail(parts))

\* strconv decimal digits of a natural number
RECURSIVE Itoa(_)
Itoa(n) == IF n < 10 THEN <<48 + n>> ELSE Itoa(n \div 10) \o <<48 + (n % 10)>>

Quote(b) == <<34>> \o b \o <<34>>

(***************************************************************************)
(* JSON values in decoded form.  A document is a function from its         *)
(* top-level keys to values; a value is a number or a string.              *)
(***************************************************************************)
JNum(n) == [t |-> "num", n |-> n, s |-> <<>>]
JStr(b) == [t |-> "str", n |-> 0, s |-> b]

\* the text json.Marshal writes for a value
ValueJSON(v) == IF v.t = "num" THEN Itoa(v.n) ELSE Quote(v.s)

(***************************************************************************)
(* The components handed to NewHTMLRenderer and their templates in         *)
(* htmlDir/src/livewire.  A data shape is the list of the struct's fields: *)
(* Go name, JSON key (its tag) and type.                                   *)
(*   Counter: struct{Count int `json:"count"`; Note string `json:"note"`}, *)
(*            template <p>{{.Count}}</p>   (Note is not rendered)          *)
(*   Parent:  struct{Title string `json:"title"`},                         *)
(*            template <div>{{.Title}}{{livewire "Counter" nil}}</div>     *)
(*   Orphan:  as Parent, but its template nests {{livewire "Ghost" nil}},  *)
(*            a component that is not registered                           *)
(***************************************************************************)
DataShape(name) ==
    IF name = "Counter"
    THEN << [name |-> "Count", key |-> "count", type |-> "num"],
            [name |-> "Note",  key |-> "note",  type |-> "str"] >>
    ELSE << [name |-> "Title", key |-> "title", type |-> "str"] >>

FieldNames(shape) == {shape[i].name : i \in DOMAIN shape}

FieldOf(shape, n) == shape[CHOOSE i \in DOMAIN shape : shape[i].name = n]

KeyField(shape, k) == shape[CHOOSE i \in DOMAIN shape : shape[i].key = k]

ZeroValue(type) == IF type = "num" THEN JNum(0) ELSE JStr(<<>>)

\* the component's InitialData method
InitialData(name) ==
    IF name = "Counter"
    THEN [f \in {"Count", "Note"} |-> IF f = "Count" THEN JNum(0) ELSE JStr(<<>>)]
    ELSE [f \in {"Title"} |-> JStr(<<>>)]

\* the exported methods func (c *C) M(data *Data) error of a component
MethodNames(name) == IF name = "Counter" THEN {"Increment", "Reset", "Fail"} ELSE {}

\* calling method m on the data: the data it leaves and the error it returns
InvokeMethod(name, m, data) ==
    CASE m = "Increment" ->
           [data |-> [data EXCEPT !["Count"] = JNum(@.n + 1)], err |-> FALSE]
      [] m = "Reset" ->
           [data |-> [data EXCEPT !["Count"] = JNum(0)], err |-> FALSE]
      [] OTHER ->
           [data |-> [data EXCEPT !["Count"] = JNum(@.n + 1)], err |-> TRUE]

\* the livewire component a component's template nests, if any
NestedComponents(name) ==
    CASE name = "Parent" -> <<"Counter">>
      [] name = "Orphan" -> <<"Ghost">>
      [] OTHER -> <<>>

(***************************************************************************)
(* encoding/json between a document and a value of a data shape.           *)
(***************************************************************************)
\* json.Unmarshal(doc, &struct): keys that match no field are skipped, fields
\* without a key keep their zero value, a value of the wrong type is an error
Unmarshal(doc, shape) ==
    LET bad(f) == f.key \in DOMAIN doc /\ doc[f.key].t # f.type
    IN [err |-> \E i \in DOMAIN shape : bad(shape[i]),
        val |-> [n \in FieldNames(shape) |->
                   LET f == FieldOf(shape, n)
                   IN IF f.key \in DOMAIN doc /\ ~bad(f) THEN doc[f.key]
                      ELSE ZeroValue(f.type)]]

\* json.Marshal(struct), decoded: one key per field
Marshal(val, shape) ==
    [k \in {shape[i].key : i \in DOMAIN shape} |-> val[KeyField(shape, k).name]]

\* json.Marshal(struct), as text: the fields in declaration order
RECURSIVE FieldsJSON(_, _, _)
FieldsJSON(val, shape, i) ==
    IF i > Len(shape) THEN <<>>
    ELSE (IF i > 1 THEN <<44>> ELSE <<>>)
         \o Quote(Text(shape[i].key)) \o <<58>> \o ValueJSON(val[shape[i].name])
         \o FieldsJSON(val, shape, i + 1)

MarshalText(val, shape) == <<123>> \o FieldsJSON(val, shape, 1) \o <<125>>

(***************************************************************************)
(* updateHTML (the HTML mutator).                                          *)
(***************************************************************************)
\* how html.Render writes an attribute value
EscapeByte(c) ==
    CASE c = 34 -> <<38, 35, 51, 52, 59>>
      [] c = 38 -> <<38, 97, 109, 112, 59>>
      [] c = 39 -> <<38, 35, 51, 57, 59>>
      [] c = 60 -> <<38, 108, 116, 59>>
      [] c = 62 -> <<38, 103, 116, 59>>
      [] OTHER  -> <<c>>

RECURSIVE EscapeAttr(_, _, _)
EscapeAttr(b, lo, hi) ==
    IF lo > hi THEN <<>>
    ELSE IF lo = hi THEN EscapeByte(b[lo])
    ELSE EscapeAttr(b, lo, (lo + hi) \div 2) \o EscapeAttr(b, ((lo + hi) \div 2) + 1, hi)

AttrName(k) ==
    IF k = "wire:id" THEN <<119, 105, 114, 101, 58, 105, 100>>
    ELSE <<119, 105, 114, 101, 58, 105, 110, 105, 116, 105, 97, 108, 45, 100, 97, 116, 97>>

\* the attributes in the order root.SetAttr added them
RECURSIVE AttrsText(_, _, _)
AttrsText(attrs, order, i) ==
    IF i > Len(order) THEN <<>>
    ELSE <<32>> \o AttrName(order[i]) \o <<61>> \o Quote(EscapeAttr(attrs[order[i]], 1, Len(attrs[order[i]])))
         \o AttrsText(attrs, order, i + 1)

\* doc.Find("body>*:first-child"): where the root element's start tag ends
\* (0 when the markup does not start with an element)
RootTagEnd(html) ==
    IF html = <<>> \/ html[1] # 60 \/ ~(\E i \in DOMAIN html : html[i] = 62) THEN 0
    ELSE CHOOSE i \in DOMAIN html : html[i] = 62 /\ \A j \in 1..(i - 1) : html[j] # 62

\* updateHTML(html, attrs, footer); order is the order in which `range attrs`
\* visits the map
updateHTML(html, attrs, order, footer) ==
    LET e == RootTagEnd(html)
        outer == IF e = 0 THEN <<>>
                 ELSE SubSeq(html, 1, e - 1) \o AttrsText(attrs, order, 1)
                      \o SubSeq(html, e, Len(html))
    IN outer \o <<10>> \o footer \o <<10>>

(***************************************************************************)
(* The envelope livewireInitial writes into wire:initial-data.             *)
(***************************************************************************)
FingerprintJSON(fp) ==
    Concat(<< <<123, 34, 105, 100, 34, 58>>, Quote(fp.id),
              <<44, 34, 110, 97, 109, 101, 34, 58>>, Quote(Text(fp.name)),
              <<44, 34, 108, 111, 99, 97, 108, 101, 34, 58>>, Quote(Text(fp.locale)),
              <<44, 34, 112, 97, 116, 104, 34, 58>>, Quote(Text(fp.path)),
              <<44, 34, 109, 101, 116, 104, 111, 100, 34, 58>>, Quote(Text(fp.method)),
              <<44, 34, 118, 34, 58>>, Quote(Text(fp.v)), <<125>> >>)

\* dataMeta, children and errors are nil in every memo the code builds
ServerMemoJSON(hash, dataJ) ==
    Concat(<< <<123, 34, 104, 116, 109, 108, 72, 97, 115, 104, 34, 58>>, Quote(hash),
              <<44, 34, 100, 97, 116, 97, 34, 58>>, dataJ,
              <<44, 34, 100, 97, 116, 97, 77, 101, 116, 97, 34, 58, 110, 117, 108, 108,
                44, 34, 99, 104, 105, 108, 100, 114, 101, 110, 34, 58, 110, 117, 108,
                108, 44, 34, 101, 114, 114, 111, 114, 115, 34, 58, 110, 117, 108, 108,
                125>> >>)

\* json.Marshal of the map {"fingerprint", "serverMemo", "effects"} (keys sorted)
EnvelopeJSON(fp, hash, dataJ) ==
    Concat(<< <<123, 34, 101, 102, 102, 101, 99, 116, 115, 34, 58, 123, 34, 108, 105,
                115, 116, 101, 110, 101, 114, 115, 34, 58, 110, 117, 108, 108, 125, 44,
                34, 102, 105, 110, 103, 101, 114, 112, 114, 105, 110, 116, 34, 58>>,
              FingerprintJSON(fp),
              <<44, 34, 115, 101, 114, 118, 101, 114, 77, 101, 109, 111, 34, 58>>,
              ServerMemoJSON(hash, dataJ), <<125>> >>)

\* a faulty end marker that always names the same instance;
\* InitialStamped tells it from EndMarker
EndMarkerFixed(id) ==
    <<60, 33, 45, 45, 32, 76, 105, 118, 101, 119, 105, 114, 101, 32, 67, 111, 109, 112,
      111, 110, 101, 110, 116, 32, 119, 105, 114, 101, 45, 101, 110, 100, 58, 65, 32,
      45, 45, 62>>

\* "<!-- Livewire Component wire-end:%s -->"
EndMarker(id) ==
    <<60, 33, 45, 45, 32, 76, 105, 118, 101, 119, 105, 114, 101, 32, 67, 111, 109, 112,
      111, 110, 101, 110, 116, 32, 119, 105, 114, 101, 45, 101, 110, 100, 58>>
    \o id \o <<32, 45, 45, 62>>

(***************************************************************************)
(* Rendering.  A request is [path, method].  The random choices of one     *)
(* livewireInitial call are rnd = [id, attrs, child]: the generated id,    *)
(* the order `range attrs` takes in updateHTML, and the choices of the     *)
(* livewireInitial calls made by the component's own template.             *)
(* A result's err is "" for a nil error; renders counts template           *)
(* executions, calls lists the component methods invoked by reflection,    *)
(* out is the markup the template gave (the local `out`).                  *)
(***************************************************************************)
RECURSIVE livewireInitial(_, _, _, _)

\* a faulty lookup that falls back to a component for a name it does not hold;
\* UnknownComponent tells it from Lookup
LookupDefault(registry, name) ==
    [ok |-> TRUE, c |-> IF name \in DOMAIN registry THEN registry[name] ELSE "Counter"]

\* c, ok := r.livewireComponentByName[name]
Lookup(registry, name) ==
    IF name \in DOMAIN registry THEN [ok |-> TRUE, c |-> registry[name]]
    ELSE [ok |-> FALSE, c |-> ""]

\* the template src/livewire/<name>.html executed on data with funcMap(req)
renderPartialFromDir(registry, req, name, data, child) ==
    IF name = "Counter"
    THEN [err |-> "", renders |-> 1, calls |-> <<>>,
          out |-> <<60, 112, 62>> \o Itoa(data["Count"].n) \o <<60, 47, 112, 62>>]
    ELSE IF NestedComponents(name) = <<>>
    THEN \* no template of that name among the parsed files
         [err |-> "failed to execute partial template", renders |-> 0, calls |-> <<>>,
          out |-> <<>>]
    ELSE LET sub == livewireInitial(registry, req, NestedComponents(name)[1], child[1])
         IN IF sub.err # ""
            THEN [err |-> "failed to execute partial template",
                  renders |-> 1 + sub.renders, calls |-> sub.calls, out |-> <<>>]
            ELSE [err |-> "", renders |-> 1 + sub.renders, calls |-> sub.calls,
                  out |-> <<60, 100, 105, 118, 62>> \o data["Title"].s \o sub.html
                          \o <<60, 47, 100, 105, 118, 62>>]

NoEnvelope ==
    [fingerprint |-> [id |-> <<>>, name |-> "", locale |-> "", path |-> "",
                      method |-> "", v |-> ""],
     serverMemo |-> [htmlHash |-> <<>>, data |-> <<>>]]

\* return "", cerrors.New(..., msg, tags); tag is the "name" tag, "" when absent
InitialFailure(msg, tag, calls, n) ==
    [err |-> msg, tag |-> tag, html |-> <<>>, envelope |-> NoEnvelope, calls |-> calls,
     renders |-> n, out |-> <<>>]

livewireInitial(registry, req, name, rnd) ==
    LET id == rnd.id
        found == Lookup(registry, name)
    IN IF ~found.ok
       THEN InitialFailure("component does not exist", name, <<>>, 0)
       ELSE
         LET c == found.c
             data == InitialData(c)
             r == renderPartialFromDir(registry, req, name, data, rnd.child)
             dataJ == MarshalText(data, DataShape(c))
             fp == [id |-> id, name |-> name, locale |-> "en", path |-> req.path,
                    method |-> req.method, v |-> "aaa"]
             initialData == EnvelopeJSON(fp, htmlHash(r.out), dataJ)
         IN IF r.err # ""
            THEN InitialFailure("failed to execute html template", "",
                                <<"InitialData">> \o r.calls, r.renders)
            ELSE [err |-> "", tag |-> "",
                  html |-> updateHTML(r.out,
                              [k \in {"wire:id", "wire:initial-data"} |->
                                  IF k = "wire:id" THEN id ELSE initialData],
                              rnd.attrs, EndMarker(id)),
                  envelope |-> [fingerprint |-> fp,
                                serverMemo |-> [htmlHash |-> htmlHash(r.out),
                                                data |-> Marshal(data, DataShape(c))]],
                  calls |-> <<"InitialData">> \o r.calls,
                  renders |-> r.renders, out |-> r.out]

(***************************************************************************)
(* livewireUpdate.  An update is [type, payload]; a payload is the decoded *)
(* JSON object [valid, id, method, name, value], valid = FALSE standing    *)
(* for a payload json.Unmarshal rejects.  The outcome of a call is         *)
(*   kind  "ok" (response, nil error), "error" (nil response, error) or    *)
(*         "panic" (the call does not return),                             *)
(*   err   the error's message, resp the response (<<>> for nil),          *)
(*   calls the component methods invoked, renders the template executions. *)
(***************************************************************************)
\* the state of the loop after one update: kind "ok" to go on to the next one
Step(k, e, data, calls) == [kind |-> k, err |-> e, data |-> data, calls |-> calls]

\* a faulty callMethod that refuses a payload whose id is not the first id the
\* server may issue; IdOnlyEchoed tells it from callMethod
callMethodChecksId(c, data, payload, calls) ==
    IF ~payload.valid \/ payload.id # <<65>>
    THEN Step("error", "failed to unmarshal payload", data, calls)
    ELSE IF payload.method \notin MethodNames(c)
    THEN Step("panic", "reflect: call of reflect.Value.Call on zero Value", data, calls)
    ELSE LET ret == InvokeMethod(c, payload.method, data)
             cs == Append(calls, payload.method)
         IN IF ret.err
            THEN Step("error", "failed to call method on component", ret.data, cs)
            ELSE Step("ok", "", ret.data, cs)

\* a faulty callMethod that goes on with the data it was given, dropping what the
\* method did to it; LeftToRight tells it from callMethod
callMethodStale(c, data, payload, calls) ==
    IF ~payload.valid THEN Step("error", "failed to unmarshal payload", data, calls)
    ELSE IF payload.method \notin MethodNames(c)
    THEN Step("panic", "reflect: call of reflect.Value.Call on zero Value", data, calls)
    ELSE IF InvokeMethod(c, payload.method, data).err
    THEN Step("error", "failed to call method on component", data,
              Append(calls, payload.method))
    ELSE Step("ok", "", data, Append(calls, payload.method))

\* case "callMethod": MethodByName(payload.Method).Call on the data value
callMethod(c, data, payload, calls) ==
    IF ~payload.valid THEN Step("error", "failed to unmarshal payload", data, calls)
    ELSE IF payload.method \notin MethodNames(c)
    THEN Step("panic", "reflect: call of reflect.Value.Call on zero Value", data, calls)
    ELSE LET ret == InvokeMethod(c, payload.method, data)
             cs == Append(calls, payload.method)
         IN IF ret.err
            THEN Step("error", "failed to call method on component", ret.data, cs)
            ELSE Step("ok", "", ret.data, cs)

\* a faulty syncInput that adds the value to what the field holds instead of
\* replacing it; SyncInputIdempotent tells it from syncInput
syncInputAppend(c, data, payload, calls) ==
    IF ~payload.valid THEN Step("error", "failed to unmarshal payload", data, calls)
    ELSE IF payload.name \notin FieldNames(DataShape(c))
    THEN Step("panic", "reflect: call of reflect.Value.Set on zero Value", data, calls)
    ELSE IF FieldOf(DataShape(c), payload.name).type # "str"
    THEN Step("panic", "reflect.Set: value of type string is not assignable", data, calls)
    ELSE Step("ok", "", [data EXCEPT ![payload.name] = JStr(@.s \o payload.value)], calls)

\* case "syncInput": FieldByName(payload.Name).Set(reflect.ValueOf(payload.Value))
syncInput(c, data, payload, calls) ==
    IF ~payload.valid THEN Step("error", "failed to unmarshal payload", data, calls)
    ELSE IF payload.name \notin FieldNames(DataShape(c))
    THEN Step("panic", "reflect: call of reflect.Value.Set on zero Value", data, calls)
    ELSE IF FieldOf(DataShape(c), payload.name).type # "str"
    THEN Step("panic", "reflect.Set: value of type string is not assignable", data, calls)
    ELSE Step("ok", "", [data EXCEPT ![payload.name] = JStr(payload.value)], calls)

\* a faulty default case that skips an update it does not know;
\* UnknownTypeFails tells it from unknownType
unknownTypeSkipped(c, data, payload, calls) ==
    Step("ok", "", data, calls)

\* default: any other type tag
unknownType(c, data, payload, calls) ==
    Step("error", "unknown update type", data, calls)

\* switch update.Type: what one update does to the data
UpdateStep(c, data, update, calls) ==
    CASE update.type = "callMethod" -> callMethod(c, data, update.payload, calls)
      [] update.type = "syncInput" -> syncInput(c, data, update.payload, calls)
      [] OTHER -> unknownType(c, data, update.payload, calls)

\* a faulty loop that goes on with the later updates after one has failed and
\* reports the first failure at the end; StopsAtFirstFailure tells it from
\* ApplyUpdates
RECURSIVE ApplyUpdatesAll(_, _, _, _, _)
ApplyUpdatesAll(c, data, updates, i, calls) ==
    IF i > Len(updates) THEN Step("ok", "", data, calls)
    ELSE
      LET step == UpdateStep(c, data, updates[i], calls)
          rest == ApplyUpdatesAll(c, step.data, updates, i + 1, step.calls)
      IN IF step.kind = "ok" \/ rest.kind = "panic" THEN rest
         ELSE [step EXCEPT !.calls = rest.calls]

\* the loop `for i := range message.Updates`, from update i on
RECURSIVE ApplyUpdates(_, _, _, _, _)
ApplyUpdates(c, data, updates, i, calls) ==
    IF i > Len(updates) THEN Step("ok", "", data, calls)
    ELSE
      LET step == UpdateStep(c, data, updates[i], calls)
      IN IF step.kind # "ok" THEN step
         ELSE ApplyUpdates(c, step.data, updates, i + 1, step.calls)

\* net/http.NewRequest accepts the method ("" stands for GET)
ValidMethod(m) == m \in {"", "GET", "POST"}

\* a faulty comparison that passes over the keys the new document lacks;
\* DirtyExact tells it from DirtyFields
DirtyFieldsPresent(dataPre, dataPost, range) ==
    SelectSeq(range, LAMBDA k : k \in DOMAIN dataPost /\ dataPre[k] # dataPost[k])

\* for k, v := range dataPre, visiting the keys in the order `range`
DirtyFields(dataPre, dataPost, range) ==
    SelectSeq(range, LAMBDA k : k \notin DOMAIN dataPost \/ dataPre[k] # dataPost[k])

\* return nil, cerrors.New(..., msg, tags); tag is the "name" tag, "" when absent
UpdateFailure(k, msg, tag, calls, n) ==
    [kind |-> k, err |-> msg, tag |-> tag, resp |-> <<>>, calls |-> calls, renders |-> n,
     out |-> <<>>]

\* faulty effects that are filled in whatever the hash;
\* SameHashQuiet tells them from Effects
EffectsAlways(message, out, updatedHTMLHash, dataJ, range) ==
    [dirty |-> DirtyFields(message.serverMemo.data, dataJ, range),
     html |-> updateHTML(out, [k \in {"wire:id"} |-> message.fingerprint.id],
                         <<"wire:id">>, <<>>)]

\* faulty effects whose html is stamped as an initial render's is, envelope
\* included; HtmlWhenChanged tells them from Effects
EffectsEnvelope(message, out, updatedHTMLHash, dataJ, range) ==
    IF message.serverMemo.htmlHash # updatedHTMLHash
    THEN [dirty |-> DirtyFields(message.serverMemo.data, dataJ, range),
          html |-> updateHTML(out,
                              [k \in {"wire:id", "wire:initial-data"} |->
                                  IF k = "wire:id" THEN message.fingerprint.id
                                  ELSE updatedHTMLHash],
                              <<"wire:id", "wire:initial-data">>, <<>>)]
    ELSE [dirty |-> <<>>, html |-> <<>>]

\* the effects of the response: dirty and html are filled in only when the hash
\* of the new markup differs from the one the message carries
Effects(message, out, updatedHTMLHash, dataJ, range) ==
    IF message.serverMemo.htmlHash # updatedHTMLHash
    THEN [dirty |-> DirtyFields(message.serverMemo.data, dataJ, range),
          html |-> updateHTML(out, [k \in {"wire:id"} |-> message.fingerprint.id],
                              <<"wire:id">>, <<>>)]
    ELSE [dirty |-> <<>>, html |-> <<>>]

\* the call from the end of the loop on: the request, the render, the effects
Respond(registry, message, c, loop, rnd) ==
    LET initialReq == [path |-> message.fingerprint.path,
                       method |-> message.fingerprint.method]
        r == renderPartialFromDir(registry, initialReq, message.fingerprint.name,
                                  loop.data, rnd.child)
        dataJ == Marshal(loop.data, DataShape(c))
        updatedHTMLHash == htmlHash(r.out)
    IN IF ~ValidMethod(initialReq.method)
       THEN UpdateFailure("error", "failed to make initial http request", "",
                          loop.calls, 0)
       ELSE IF r.err # ""
       THEN UpdateFailure("error", "failed to execute html template", "",
                          loop.calls \o r.calls, r.renders)
       ELSE [kind |-> "ok", err |-> "", tag |-> "",
             resp |-> << [effects |-> Effects(message, r.out, updatedHTMLHash, dataJ,
                                              rnd.range),
                          serverMemo |-> [htmlHash |-> updatedHTMLHash,
                                          data |-> dataJ]] >>,
             calls |-> loop.calls \o r.calls, renders |-> r.renders, out |-> r.out]

livewireUpdate(registry, message, rnd) ==
    LET found == Lookup(registry, message.fingerprint.name)
    IN IF ~found.ok
       THEN UpdateFailure("error", "component does not exist", message.fingerprint.name,
                          <<>>, 0)
       ELSE
         LET c == found.c
             dataVal == Unmarshal(message.serverMemo.data, DataShape(c))
             loop == ApplyUpdates(c, dataVal.val, message.updates, 1, <<>>)
         IN IF dataVal.err
            THEN UpdateFailure("error", "failed to unmarshal data into its type", "",
                               <<>>, 0)
            ELSE IF loop.kind # "ok"
            THEN UpdateFailure(loop.kind, loop.err, "", loop.calls, 0)
            ELSE Respond(registry, message, c, loop, rnd)

(***************************************************************************)
(* The inputs the model draws.                                             *)
(***************************************************************************)
\* the component lists NewHTMLRenderer is given
ComponentLists == {{"Counter", "Parent", "Orphan"}}

\* the names a page or a client may ask for; Ghost is never registered
RequestedNames == {"Counter", "Parent", "Orphan", "Ghost"}

\* the ids crandom.GenerateRandomString may return (one byte stands for 20)
Ids == {<<65>>, <<66>>}

Requests == {[path |-> "/", method |-> "GET"]}

AttrOrders == {<<"wire:id", "wire:initial-data">>, <<"wire:initial-data", "wire:id">>}

\* the random choices of one livewireInitial call of component name
InitialChoices(name) ==
    IF NestedComponents(name) = <<>>
    THEN {[id |-> i, attrs |-> o, child |-> <<>>] : i \in Ids, o \in AttrOrders}
    ELSE {[id |-> i, attrs |-> o,
           child |-> <<[id |-> ci, attrs |-> co, child |-> <<>>]>>] :
             i \in Ids, o \in AttrOrders, ci \in Ids, co \in AttrOrders}

RangeOrders(S) ==
    {q \in [1..Cardinality(S) -> S] : \A i, j \in 1..Cardinality(S) : q[i] = q[j] => i = j}

\* the random choices of one livewireUpdate call on message m
UpdateChoices(m) ==
    {[range |-> q, child |-> ch] :
        q \in RangeOrders(DOMAIN m.serverMemo.data),
        ch \in IF NestedComponents(m.fingerprint.name) = <<>> THEN {<<>>}
               ELSE {<<[id |-> ci, attrs |-> co, child |-> <<>>]>> :
                       ci \in Ids, co \in AttrOrders}}

Payload(method, name, value) ==
    [valid |-> TRUE, id |-> <<65>>, method |-> method, name |-> name, value |-> value]

\* the updates a client puts into a message
Updates ==
    {[type |-> "callMethod", payload |-> Payload(m, "", <<>>)] :
        m \in {"Increment", "Reset", "Fail", "Nope"}}
    \cup {[type |-> "syncInput", payload |-> Payload("", n, <<97>>)] :
        n \in {"Note", "Title", "Count"}}
    \cup {[type |-> "bogus", payload |-> Payload("", "", <<>>)],
          [type |-> "callMethod", payload |-> [Payload("", "", <<>>) EXCEPT !.valid = FALSE]]}

Fingerprint(name, method) ==
    [id |-> <<70>>, name |-> name, locale |-> "en", path |-> "/", method |-> method,
     v |-> "aaa"]

Doc(keys, count, note) ==
    [k \in keys |-> CASE k = "count" -> count
                      [] k = "extra" -> JNum(5)
                      [] OTHER -> note]

\* the snapshots of a client that does not echo what it was given:
\* "00000000" is a stale hash, the other is the hash of <p>1</p>
ForgedMemos ==
    {[htmlHash |-> h, data |-> d] :
        h \in {<<48, 48, 48, 48, 48, 48, 48, 48>>,
                htmlHash(<<60, 112, 62, 49, 60, 47, 112, 62>>)},
        d \in {Doc({"count", "note"}, JNum(1), JStr(<<97>>)),
               Doc({"count", "extra"}, JNum(1), JStr(<<>>)),
               Doc({"count", "note", "extra"}, JNum(1), JStr(<<97>>)),
               Doc({"count", "note"}, JStr(<<97>>), JStr(<<97>>))}}

ForgedMessages ==
    {[fingerprint |-> Fingerprint("Counter", "GET"), serverMemo |-> memo, updates |-> <<>>] :
        memo \in ForgedMemos}
    \cup {[fingerprint |-> Fingerprint(n[1], n[2]),
           serverMemo |-> [htmlHash |-> <<48, 48, 48, 48, 48, 48, 48, 48>>,
                           data |-> Doc(n[3], JNum(1), JStr(<<97>>))],
           updates |-> <<>>] :
             n \in {<<"Parent", "GET", {"title"}>>, <<"Orphan", "GET", {"title"}>>,
                    <<"Ghost", "GET", {"count", "note"}>>,
                    <<"Counter", "G T", {"count", "note"}>>}}

(***************************************************************************)
(* State.                                                                  *)
(***************************************************************************)
VARIABLES
    livewireComponentByName,  \* HTMLRenderer's registry: name -> component
    client,    \* the envelope the page holds, <<>> before the first render
    message,   \* the message the client is composing, <<>> when none
    origin,    \* where the composed message's snapshot comes from: the envelope of
               \* an "initial" render, of an "update" response, or "forged"
    last       \* the last call served, its input (req or message), the random
               \* choices its nested renders drew and its outcome; initial keeps
               \* the outcome of a failed page render while the client goes on

VARIABLES
    markup,    \* two markup fragments handed to htmlHash, <<>> when none
    token,     \* the tokens htmlHash gave for them, <<>> before it is called
    inflight   \* the calls in progress when requests are served in parallel:
               \* slot -> the call's position and local variables

vars == <<livewireComponentByName, client, message, origin, last, markup, token, inflight>>

NoCall ==
    [op |-> "none", name |-> "", origin |-> "none", req |-> <<>>, message |-> <<>>,
     drawn |-> <<>>, initial |-> <<>>, update |-> <<>>]

\* the goroutines that serve requests in parallel
Slots == {"g1", "g2"}

Idle ==
    [pc |-> "idle", op |-> "none", name |-> "", message |-> <<>>, c |-> "", data |-> <<>>,
     i |-> 0, calls |-> <<>>, result |-> <<>>]

\* an HTMLRenderer just built, serving nothing yet
Fresh ==
    /\ livewireComponentByName \in {[n \in S |-> n] : S \in ComponentLists}
    /\ client = <<>>
    /\ message = <<>>
    /\ origin = "none"
    /\ last = NoCall
    /\ markup = <<>>
    /\ token = <<>>
    /\ inflight = [s \in Slots |-> Idle]

\* NewHTMLRenderer
Init == Fresh

\* a page template calls {{livewire name}}: livewireInitial (the first call served)
RenderInitial(name, req, rnd) ==
    /\ client = <<>>
    /\ message = <<>>
    /\ last = NoCall
    /\ \E res \in {livewireInitial(livewireComponentByName, req, name, rnd)} :
          /\ last' = [NoCall EXCEPT !.op = "initial", !.name = name, !.req = <<req>>,
                                    !.initial = <<res>>]
          /\ client' = IF res.err = ""
                       THEN <<[fingerprint |-> res.envelope.fingerprint,
                               serverMemo |-> res.envelope.serverMemo,
                               from |-> "initial"]>>
                       ELSE client
    /\ UNCHANGED <<livewireComponentByName, message, origin, markup, token, inflight>>

\* the client starts a message from the envelope it holds
Echo ==
    /\ client # <<>>
    /\ message = <<>>
    /\ message' = <<[fingerprint |-> client[1].fingerprint,
                     serverMemo |-> client[1].serverMemo, updates |-> <<>>]>>
    /\ origin' = client[1].from
    /\ last' = NoCall
    /\ UNCHANGED <<livewireComponentByName, client, markup, token, inflight>>

\* a client that was given no envelope (no page rendered, or the render failed)
\* starts a message of its own making
Forge(m) ==
    /\ client = <<>>
    /\ message = <<>>
    /\ last.op \in {"none", "initial"}
    /\ message' = <<m>>
    /\ origin' = "forged"
    /\ last' = last
    /\ UNCHANGED <<livewireComponentByName, client, markup, token, inflight>>

\* the count the message's data starts from, and the calls that raise it
CountReach(m) ==
    (IF "count" \in DOMAIN m.serverMemo.data THEN m.serverMemo.data["count"].n ELSE 0)
    + Cardinality({i \in DOMAIN m.updates :
                     /\ m.updates[i].type = "callMethod"
                     /\ m.updates[i].payload.method \in {"Increment", "Fail"}})

\* the client appends an update to the message
AddUpdate(u) ==
    /\ message # <<>>
    /\ Len(message[1].updates) < MaxUpdates
    /\ LET m == [message[1] EXCEPT !.updates = Append(@, u)]
       IN /\ CountReach(m) <= MaxCount
          /\ message' = <<m>>
    /\ UNCHANGED <<livewireComponentByName, client, origin, last, markup, token, inflight>>

\* the client posts the message: livewireUpdate; it keeps the snapshot of a response
ApplyUpdate(rnd) ==
    /\ message # <<>>
    /\ \E res \in {livewireUpdate(livewireComponentByName, message[1], rnd)} :
          /\ last' = [last EXCEPT !.op = "update", !.name = message[1].fingerprint.name,
                                  !.origin = origin, !.message = message,
                                  !.drawn = IF res.renders > 0 THEN rnd.child ELSE <<>>,
                                  !.update = <<res>>]
          /\ client' = IF res.kind = "ok"
                       THEN <<[fingerprint |-> message[1].fingerprint,
                               serverMemo |-> res.resp[1].serverMemo,
                               from |-> "update"]>>
                       ELSE client
    /\ message' = <<>>
    /\ origin' = "none"
    /\ UNCHANGED <<livewireComponentByName, markup, token, inflight>>

Next ==
    \/ \E name \in RequestedNames, req \in Requests :
         \E rnd \in InitialChoices(name) : RenderInitial(name, req, rnd)
    \/ Echo
    \/ \E m \in ForgedMessages : Forge(m)
    \/ \E u \in Updates : AddUpdate(u)
    \/ \E rnd \in (IF message = <<>> THEN {} ELSE UpdateChoices(message[1])) :
         ApplyUpdate(rnd)

Spec == Init /\ [][Next]_vars

(***************************************************************************)
(* htmlHash on its own: two fragments are drawn and hashed.                *)
(***************************************************************************)
\* the fragments: markup of a Counter, and words of equal length that differ in
\* their last byte (plumless, plumlesz) or in every byte (plumless, buckeroo)
Fragments ==
    {<<>>, <<97>>, <<98>>, <<97, 98>>,
     <<60, 112, 62, 48, 60, 47, 112, 62>>, <<60, 112, 62, 49, 60, 47, 112, 62>>,
     <<60, 112, 62, 50, 60, 47, 112, 62>>, <<60, 112, 62, 49, 48, 60, 47, 112, 62>>,
     <<112, 108, 117, 109, 108, 101, 115, 115>>,
     <<112, 108, 117, 109, 108, 101, 115, 122>>,
     <<98, 117, 99, 107, 101, 114, 111, 111>>}

HashInit ==
    /\ livewireComponentByName \in {[n \in S |-> n] : S \in ComponentLists}
    /\ client = <<>>
    /\ message = <<>>
    /\ origin = "none"
    /\ last = NoCall
    /\ markup \in Fragments \X Fragments
    /\ token = <<>>
    /\ inflight = [s \in Slots |-> Idle]

\* htmlHash is called on both fragments
HashBoth ==
    /\ token = <<>>
    /\ token' = <<htmlHash(markup[1]), htmlHash(markup[2])>>
    /\ UNCHANGED <<livewireComponentByName, client, message, origin, last, markup,
                   inflight>>

HashNext == HashBoth

HashSpec == HashInit /\ [][HashNext]_vars

(***************************************************************************)
(* Requests served in parallel.  net/http runs each handler in a goroutine *)
(* of its own; livewireUpdate is taken in the steps another goroutine      *)
(* can come between: entry up to the loop, each turn of the loop, and the  *)
(* rest.  What a call holds in local variables is in its slot.             *)
(***************************************************************************)
\* the sequences of at most n elements of S
SeqsUpTo(S, n) == UNION {[1..k -> S] : k \in 0..n}

\* the updates of the messages sent in parallel
ParallelUpdates ==
    {u \in Updates :
        \/ u.type = "callMethod" /\ u.payload.valid
                                 /\ u.payload.method \in {"Increment", "Fail"}
        \/ u.type = "syncInput" /\ u.payload.name = "Note"}

\* the messages sent in parallel: a Counter at count 0, and a Ghost
ParallelMessages ==
    {[fingerprint |-> Fingerprint(n, "GET"),
      serverMemo |-> [htmlHash |-> htmlHash(<<60, 112, 62, 48, 60, 47, 112, 62>>),
                      data |-> Doc({"count", "note"}, JNum(0), JStr(<<>>))],
      updates |-> u] :
        n \in {"Counter"}, u \in SeqsUpTo(ParallelUpdates, MaxUpdates)}
    \cup {[fingerprint |-> Fingerprint("Ghost", "GET"),
           serverMemo |-> [htmlHash |-> <<48, 48, 48, 48, 48, 48, 48, 48>>,
                           data |-> Doc({"count", "note"}, JNum(0), JStr(<<>>))],
           updates |-> <<>>]}

\* the pages rendered in parallel
ParallelNames == {"Counter", "Ghost"}

\* a faulty loop whose data value is shared by the calls in progress (a field of
\* the renderer, not a local); ParallelAsAlone tells it from LoopData
LoopDataShared(calls, s) ==
    calls[CHOOSE t \in Slots : calls[t].pc = "loop"].data

\* dataVal, a local of the call in slot s
LoopData(calls, s) == calls[s].data

\* slot s ends its call with result res
Done(call, res) == [call EXCEPT !.pc = "done", !.result = <<res>>]

\* livewireUpdate from its entry to the loop: the lookup, the decoding of the data
BeginUpdate(s, m) ==
    /\ inflight[s].pc = "idle"
    /\ LET found == Lookup(livewireComponentByName, m.fingerprint.name)
           dataVal == Unmarshal(m.serverMemo.data, DataShape(found.c))
           call == [Idle EXCEPT !.op = "update", !.name = m.fingerprint.name,
                                !.message = <<m>>]
       IN inflight' = [inflight EXCEPT ![s] =
            IF ~found.ok
            THEN Done(call, UpdateFailure("error", "component does not exist",
                                          m.fingerprint.name, <<>>, 0))
            ELSE IF dataVal.err
            THEN Done(call, UpdateFailure("error",
                                          "failed to unmarshal data into its type", "",
                                          <<>>, 0))
            ELSE [call EXCEPT !.pc = "loop", !.c = found.c, !.data = dataVal.val,
                              !.i = 1]]
    /\ UNCHANGED <<livewireComponentByName, client, message, origin, last, markup, token>>

\* one turn of the loop over message.Updates
LoopUpdate(s) ==
    /\ inflight[s].pc = "loop"
    /\ inflight[s].i <= Len(inflight[s].message[1].updates)
    /\ LET call == inflight[s]
           step == UpdateStep(call.c, LoopData(inflight, s),
                              call.message[1].updates[call.i], call.calls)
       IN inflight' = [inflight EXCEPT ![s] =
            IF step.kind # "ok"
            THEN Done([call EXCEPT !.calls = step.calls],
                      UpdateFailure(step.kind, step.err, "", step.calls, 0))
            ELSE [call EXCEPT !.i = @ + 1, !.data = step.data, !.calls = step.calls]]
    /\ UNCHANGED <<livewireComponentByName, client, message, origin, last, markup, token>>

\* livewireUpdate after the loop: the render and the response
FinishUpdate(s, rnd) ==
    /\ inflight[s].pc = "loop"
    /\ inflight[s].i > Len(inflight[s].message[1].updates)
    /\ LET call == inflight[s]
           loop == Step("ok", "", LoopData(inflight, s), call.calls)
       IN inflight' = [inflight EXCEPT ![s] =
            Done(call, Respond(livewireComponentByName, call.message[1], call.c, loop,
                               rnd))]
    /\ UNCHANGED <<livewireComponentByName, client, message, origin, last, markup, token>>

\* livewireInitial up to the render: the lookup
BeginInitial(s, name) ==
    /\ inflight[s].pc = "idle"
    /\ LET found == Lookup(livewireComponentByName, name)
           call == [Idle EXCEPT !.op = "initial", !.name = name]
       IN inflight' = [inflight EXCEPT ![s] =
            IF ~found.ok
            THEN Done(call, InitialFailure("component does not exist", name, <<>>, 0))
            ELSE [call EXCEPT !.pc = "render", !.c = found.c]]
    /\ UNCHANGED <<livewireComponentByName, client, message, origin, last, markup, token>>

\* livewireInitial from InitialData on
FinishInitial(s, req, rnd) ==
    /\ inflight[s].pc = "render"
    /\ inflight' = [inflight EXCEPT ![s] =
          Done(@, livewireInitial(livewireComponentByName, req, @.name, rnd))]
    /\ UNCHANGED <<livewireComponentByName, client, message, origin, last, markup, token>>

ParallelNext ==
    \/ \E s \in Slots, m \in ParallelMessages : BeginUpdate(s, m)
    \/ \E s \in Slots : LoopUpdate(s)
    \/ \E s \in Slots :
         \E rnd \in (IF inflight[s].pc = "loop"
                     THEN UpdateChoices(inflight[s].message[1]) ELSE {}) :
            FinishUpdate(s, rnd)
    \/ \E s \in Slots, name \in ParallelNames : BeginInitial(s, name)
    \/ \E s \in Slots, req \in Requests :
         \E rnd \in (IF inflight[s].pc = "render"
                     THEN InitialChoices(inflight[s].name) ELSE {}) :
            FinishInitial(s, req, rnd)

ParallelSpec == Fresh /\ [][ParallelNext]_vars

(***************************************************************************)
(* The properties.  They read the call recorded in last.                   *)
(***************************************************************************)
Rendered == last.initial # <<>>
Page == last.initial[1]
Served == last.op = "update"
Msg == last.message[1]
Out == last.update[1]
Resp == Out.resp[1]
Responded == Served /\ Out.kind = "ok"
Registered == last.name \in DOMAIN livewireComponentByName
Component == livewireComponentByName[last.name]
Pre == Msg.serverMemo.data
Post == Resp.serverMemo.data
Rehydrated == Unmarshal(Pre, DataShape(Component))
SameHash == Resp.serverMemo.htmlHash = Msg.serverMemo.htmlHash
Range(q) == {q[i] : i \in DOMAIN q}
Changed == {k \in DOMAIN Pre : k \notin DOMAIN Post \/ Pre[k] # Post[k]}
Call(m) == [type |-> "callMethod", payload |-> Payload(m, "", <<>>)]
Sync(n) == [type |-> "syncInput", payload |-> Payload("", n, <<97>>)]
KnownType(u) == u.type \in {"callMethod", "syncInput"}

\* what one update makes of the data when it succeeds
After(c, data, u) ==
    IF u.type = "callMethod" THEN InvokeMethod(c, u.payload.method, data).data
    ELSE [data EXCEPT ![u.payload.name] = JStr(u.payload.value)]

\* the updates from i on, applied one after the other, left to right
RECURSIVE FoldLeft(_, _, _, _)
FoldLeft(c, data, updates, i) ==
    IF i > Len(updates) THEN data
    ELSE FoldLeft(c, After(c, data, updates[i]), updates, i + 1)

\* update i is reached: the component resolves, the data deserializes and the
\* updates before i all succeed
Reached(i) ==
    /\ Registered
    /\ ~Rehydrated.err
    /\ i \in DOMAIN Msg.updates
    /\ ApplyUpdates(Component, Rehydrated.val, SubSeq(Msg.updates, 1, i - 1), 1, <<>>).kind
         = "ok"

\* C1: the envelope of an initial render, submitted at once with no updates,
\* comes back with dirty empty and no html, for every registered component.
RoundTrip ==
    (Served /\ last.origin = "initial" /\ Msg.updates = <<>>)
        => /\ Out.kind = "ok"
           /\ Resp.effects.dirty = <<>>
           /\ Resp.effects.html = <<>>

\* C2: the updates are applied left to right to the one data value rehydrated
\* from the message, and a response carries the serialization of the data after
\* the last of them; a Counter's count goes up by one per Increment, and
\* Increment then Reset is not Reset then Increment.
LeftToRight ==
    Responded =>
        /\ Post = Marshal(FoldLeft(Component, Rehydrated.val, Msg.updates, 1),
                          DataShape(Component))
        /\ (last.name = "Counter" /\ (\A i \in DOMAIN Msg.updates :
                                         Msg.updates[i] = Call("Increment")))
              => Post["count"] = JNum(Rehydrated.val["Count"].n + Len(Msg.updates))
        /\ (last.name = "Counter" /\ Msg.updates = <<Call("Increment"), Call("Reset")>>)
              => Post["count"] = JNum(0)
        /\ (last.name = "Counter" /\ Msg.updates = <<Call("Reset"), Call("Increment")>>)
              => Post["count"] = JNum(1)

\* a Counter at count 0 answers two Increment calls with count 2
LeftToRightSeen ==
    /\ Responded
    /\ last.name = "Counter"
    /\ last.origin = "initial"
    /\ Pre["count"] = JNum(0)
    /\ Msg.updates = <<Call("Increment"), Call("Increment")>>
    /\ Post["count"] = JNum(2)

\* C3: a call either applies every update and returns a response with no error,
\* or returns an error with no response; nothing in between.
AllOrError ==
    Served =>
        \/ /\ Out.kind = "ok"
           /\ Out.err = ""
           /\ Out.resp # <<>>
           /\ Post = Marshal(FoldLeft(Component, Rehydrated.val, Msg.updates, 1),
                             DataShape(Component))
        \/ /\ Out.kind = "error"
           /\ Out.err # ""
           /\ Out.resp = <<>>

\* C4: when the hash of the new markup differs from the message's, dirty is
\* exactly the keys of the incoming document that the returned document lacks
\* or holds with another value, each once; a key of the returned document alone
\* is never dirty.
DirtyExact ==
    (Responded /\ ~SameHash) =>
        /\ Range(Resp.effects.dirty) = Changed
        /\ Len(Resp.effects.dirty) = Cardinality(Changed)
        /\ \A k \in DOMAIN Post \ DOMAIN Pre : k \notin Range(Resp.effects.dirty)

\* a document {count, extra} comes back as {count, note}: count changed and extra
\* gone are dirty, note is new and is not
DirtyExactSeen ==
    /\ Responded
    /\ ~SameHash
    /\ DOMAIN Pre = {"count", "extra"}
    /\ Msg.updates = <<Call("Increment")>>
    /\ "note" \in DOMAIN Post
    /\ Range(Resp.effects.dirty) = {"count", "extra"}

\* C5: every response lists in dirty each field of the incoming data that the
\* returned data lacks or holds with another value, whether or not the markup
\* changed.
DirtyComplete ==
    Responded => Changed \subseteq Range(Resp.effects.dirty)

\* C6 as stated: when the hash of the new markup equals the message's, dirty is
\* empty, there is no html and the returned data is the incoming data.
SameHashUnchanged ==
    (Responded /\ SameHash) =>
        /\ Resp.effects.dirty = <<>>
        /\ Resp.effects.html = <<>>
        /\ Post = Pre

\* C6: when the hash of the new markup equals the message's, dirty is empty,
\* there is no html, and the returned data is the serialization of the data
\* after the updates, which need not be the incoming data.
SameHashQuiet ==
    (Responded /\ SameHash) =>
        /\ Resp.effects.dirty = <<>>
        /\ Resp.effects.html = <<>>
        /\ Post = Marshal(FoldLeft(Component, Rehydrated.val, Msg.updates, 1),
                          DataShape(Component))

\* the markup of a Counter does not show note: a new note leaves the hash as it
\* was and comes back in the data
SameHashQuietSeen ==
    /\ Responded
    /\ SameHash
    /\ last.origin = "initial"
    /\ Msg.updates = <<Sync("Note")>>
    /\ Post # Pre
    /\ Resp.effects.dirty = <<>>

\* C7: a name that was never registered makes the initial render and the update
\* fail with "component does not exist" carrying the name, with empty markup or
\* no response, before any component method is called or template executed.
UnknownComponent ==
    /\ (Rendered /\ last.op = "initial" /\ ~Registered) =>
          /\ Page.err = "component does not exist"
          /\ Page.tag = last.name
          /\ Page.html = <<>>
          /\ Page.calls = <<>>
          /\ Page.renders = 0
    /\ (Served /\ ~Registered) =>
          /\ Out.kind = "error"
          /\ Out.err = "component does not exist"
          /\ Out.tag = last.name
          /\ Out.resp = <<>>
          /\ Out.calls = <<>>
          /\ Out.renders = 0

\* a page asked for Ghost and was refused, then a message for Ghost was refused
UnknownComponentSeen ==
    /\ Rendered
    /\ Page.err = "component does not exist"
    /\ Page.tag = "Ghost"
    /\ Served
    /\ last.name = "Ghost"
    /\ Msg.updates # <<>>
    /\ Out.err = "component does not exist"

\* C8 as stated: an update of unknown type anywhere in the sequence makes the
\* call fail with "unknown update type" and no response.
UnknownTypeAnywhere ==
    (Served /\ \E i \in DOMAIN Msg.updates : ~KnownType(Msg.updates[i])) =>
        /\ Out.kind = "error"
        /\ Out.err = "unknown update type"
        /\ Out.resp = <<>>

\* C8: an update of unknown type anywhere in the sequence leaves the call
\* without a response; the call fails with "unknown update type" when that
\* update is reached, the updates before it having succeeded.
UnknownTypeFails ==
    Served =>
        \A i \in DOMAIN Msg.updates :
            ~KnownType(Msg.updates[i]) =>
                /\ Out.kind # "ok"
                /\ Out.resp = <<>>
                /\ Reached(i) => /\ Out.kind = "error"
                                 /\ Out.err = "unknown update type"

\* an unknown update after an Increment that was called: the call fails
UnknownTypeFailsSeen ==
    /\ Served
    /\ Len(Msg.updates) = 2
    /\ Msg.updates[1] = Call("Increment")
    /\ ~KnownType(Msg.updates[2])
    /\ Out.calls = <<"Increment">>
    /\ Out.err = "unknown update type"
    /\ Out.resp = <<>>

\* C9: a syncInput that is reached and names a field the data does not have, or
\* a field a string cannot be assigned to, makes the call return an error.
SyncInputFails ==
    Served =>
        \A i \in DOMAIN Msg.updates :
            (/\ Reached(i)
             /\ Msg.updates[i].type = "syncInput"
             /\ Msg.updates[i].payload.valid
             /\ \/ Msg.updates[i].payload.name \notin FieldNames(DataShape(Component))
                \/ FieldOf(DataShape(Component), Msg.updates[i].payload.name).type # "str")
            => /\ Out.kind = "error"
               /\ Out.err # ""
               /\ Out.resp = <<>>

\* C10: a callMethod that is reached and names a method the component does not
\* have makes the call return an error, and that method is not invoked.
MethodMissingFails ==
    Served =>
        \A i \in DOMAIN Msg.updates :
            (/\ Reached(i)
             /\ Msg.updates[i].type = "callMethod"
             /\ Msg.updates[i].payload.valid
             /\ Msg.updates[i].payload.method \notin MethodNames(Component))
            => /\ Out.kind = "error"
               /\ Out.err # ""
               /\ Out.resp = <<>>
               /\ Msg.updates[i].payload.method \notin Range(Out.calls)

\* the document has exactly the declared fields, each of its declared type
ExactShape(doc, shape) ==
    /\ DOMAIN doc = {shape[i].key : i \in DOMAIN shape}
    /\ \A i \in DOMAIN shape : doc[shape[i].key].t = shape[i].type

\* C11: a message whose data is not exactly of the component's declared shape
\* (a field missing, a key too many, a value of the wrong type) is refused with
\* the deserialization error; no default stands in for the mismatch.
ExactShapeOrError ==
    (Served /\ Registered /\ ~ExactShape(Pre, DataShape(Component))) =>
        /\ Out.kind = "error"
        /\ Out.err = "failed to unmarshal data into its type"
        /\ Out.resp = <<>>

\* C12: a syncInput that succeeds gives, applied twice in a row, the data it
\* gives applied once.
SyncInputIdempotent ==
    (Responded /\ Len(Msg.updates) = 1 /\ Msg.updates[1].type = "syncInput") =>
        \A rnd \in UpdateChoices(Msg) :
            LET twice == livewireUpdate(livewireComponentByName,
                                        [Msg EXCEPT !.updates = @ \o @], rnd)
            IN /\ twice.kind = "ok"
               /\ twice.resp[1].serverMemo.data = Post

\* a note that was empty is set to "a"
SyncInputIdempotentSeen ==
    /\ Responded
    /\ last.name = "Counter"
    /\ last.origin = "initial"
    /\ Msg.updates = <<Sync("Note")>>
    /\ Pre["note"] = JStr(<<>>)
    /\ Post["note"] = JStr(<<97>>)

\* needle occurs in hay
Contains(hay, needle) ==
    \E i \in 1..(Len(hay) - Len(needle) + 1) :
        SubSeq(hay, i, i + Len(needle) - 1) = needle

EndsWith(hay, tail) ==
    /\ Len(tail) <= Len(hay)
    /\ SubSeq(hay, Len(hay) - Len(tail) + 1, Len(hay)) = tail

\* the start tag of the root element of a markup
RootTag(html) == SubSeq(html, 1, RootTagEnd(html))

\* the text of attribute k="v" in a start tag
Attr(k, v) == <<32>> \o AttrName(k) \o <<61>> \o Quote(EscapeAttr(v, 1, Len(v)))

\* the comment <!-- Livewire Component wire-end:id -->
EndComment(id) ==
    <<60, 33, 45, 45, 32>>
    \o <<76, 105, 118, 101, 119, 105, 114, 101, 32>>
    \o <<67, 111, 109, 112, 111, 110, 101, 110, 116, 32>>
    \o <<119, 105, 114, 101, 45, 101, 110, 100, 58>> \o id \o <<32, 45, 45, 62>>

\* C14: a successful initial render stamps one generated id as the root's
\* wire:id, as fingerprint.id of the envelope in the root's wire:initial-data and
\* in the trailing end marker; the envelope's fingerprint has the requested name
\* and the request's path and method, its serverMemo the serialized InitialData
\* and the hash of the rendered markup.
InitialStamped ==
    (Rendered /\ last.op = "initial" /\ Page.err = "") =>
        LET fp == Page.envelope.fingerprint
            memo == Page.envelope.serverMemo
            shape == DataShape(Component)
        IN /\ fp.id \in Ids
           /\ Contains(RootTag(Page.html), Attr("wire:id", fp.id))
           /\ Contains(RootTag(Page.html),
                       Attr("wire:initial-data",
                            EnvelopeJSON(fp, memo.htmlHash,
                                         MarshalText(InitialData(Component), shape))))
           /\ Contains(RootTag(Page.html),
                       EscapeAttr(<<34, 105, 100, 34, 58>> \o Quote(fp.id), 1,
                                  7 + Len(fp.id)))
           /\ EndsWith(Page.html, <<10>> \o EndComment(fp.id) \o <<10>>)
           /\ fp.name = last.name
           /\ fp.path = last.req[1].path
           /\ fp.method = last.req[1].method
           /\ memo.data = Marshal(InitialData(Component), shape)
           /\ memo.htmlHash = htmlHash(Page.out)

\* a Counter rendered under the id "B"
InitialStampedSeen ==
    /\ Rendered
    /\ last.op = "initial"
    /\ last.name = "Counter"
    /\ Page.err = ""
    /\ Page.envelope.fingerprint.id = <<66>>
    /\ Contains(Page.html, Attr("wire:id", <<66>>))

\* update u succeeds on data
Succeeds(c, data, u) ==
    /\ KnownType(u)
    /\ u.payload.valid
    /\ u.type = "callMethod" =>
          /\ u.payload.method \in MethodNames(c)
          /\ ~InvokeMethod(c, u.payload.method, data).err
    /\ u.type = "syncInput" =>
          /\ u.payload.name \in FieldNames(DataShape(c))
          /\ FieldOf(DataShape(c), u.payload.name).type = "str"

\* the error update u returns on data: bad payload, method error or unknown
\* type ("" when it returns none)
FailureOf(c, data, u) ==
    IF ~KnownType(u) THEN "unknown update type"
    ELSE IF ~u.payload.valid THEN "failed to unmarshal payload"
    ELSE IF /\ u.type = "callMethod"
            /\ u.payload.method \in MethodNames(c)
            /\ InvokeMethod(c, u.payload.method, data).err
    THEN "failed to call method on component"
    ELSE ""

\* the data update i of the served message starts from
DataBefore(i) == FoldLeft(Component, Rehydrated.val, SubSeq(Msg.updates, 1, i - 1), 1)

\* update i is the first of the served message that does not succeed
FirstFailing(i) ==
    /\ ~Succeeds(Component, DataBefore(i), Msg.updates[i])
    /\ \A j \in 1..(i - 1) : Succeeds(Component, DataBefore(j), Msg.updates[j])

\* the methods named by the callMethod updates of a sequence, in order
MethodsOf(updates) ==
    LET sel == SelectSeq(updates, LAMBDA u : u.type = "callMethod")
    IN [k \in DOMAIN sel |-> sel[k].payload.method]

\* C17: when update i is the first to fail, by a bad payload, a method error or
\* an unknown type, the call returns the error of update i; the methods of the
\* callMethod updates before i have been called once each, in order, the method
\* of update i if it is the one that returned the error, and none after i.
StopsAtFirstFailure ==
    (Served /\ Registered /\ ~Rehydrated.err) =>
        \A i \in DOMAIN Msg.updates :
            (FirstFailing(i) /\ FailureOf(Component, DataBefore(i), Msg.updates[i]) # "") =>
                /\ Out.kind = "error"
                /\ Out.resp = <<>>
                /\ Out.err = FailureOf(Component, DataBefore(i), Msg.updates[i])
                /\ Out.calls =
                     MethodsOf(SubSeq(Msg.updates, 1, i - 1))
                     \o (IF Out.err = "failed to call method on component"
                         THEN <<Msg.updates[i].payload.method>> ELSE <<>>)

\* Fail returns an error and the Increment after it is never called
StopsAtFirstFailureSeen ==
    /\ Served
    /\ last.name = "Counter"
    /\ Msg.updates = <<Call("Fail"), Call("Increment")>>
    /\ Out.err = "failed to call method on component"
    /\ Out.calls = <<"Fail">>

\* C18: a response has html exactly when the hash of the new markup differs
\* from the message's; that html's root carries wire:id = message.fingerprint.id
\* and no wire:initial-data, and the returned htmlHash is the hash of the markup
\* as rendered, before the stamping.
HtmlWhenChanged ==
    Responded =>
        /\ (Resp.effects.html # <<>>) <=> ~SameHash
        /\ Resp.serverMemo.htmlHash = htmlHash(Out.out)
        /\ Resp.effects.html # <<>> =>
              /\ Contains(RootTag(Resp.effects.html), Attr("wire:id", Msg.fingerprint.id))
              /\ ~Contains(RootTag(Resp.effects.html), AttrName("wire:initial-data"))
              /\ Len(Resp.effects.html)
                   = Len(Out.out) + Len(Attr("wire:id", Msg.fingerprint.id)) + 2

\* an Increment changes the markup of a Counter: html comes back stamped
HtmlWhenChangedSeen ==
    /\ Responded
    /\ last.name = "Counter"
    /\ last.origin = "initial"
    /\ Msg.updates = <<Call("Increment")>>
    /\ ~SameHash
    /\ Contains(Resp.effects.html, Attr("wire:id", Msg.fingerprint.id))

\* message m with every id (fingerprint.id and the payloads' id) replaced
WithId(m, id) ==
    [m EXCEPT !.fingerprint.id = id,
              !.updates = [k \in DOMAIN m.updates |->
                              [m.updates[k] EXCEPT !.payload.id = id]]]

\* the ids a client may send: the ones the server issues and one it never did
ClientIds == Ids \cup {<<70>>}

\* C19: the served message with other ids in it, the nested renders drawing what
\* they drew, has the same outcome: the same kind and error, the same dirty
\* fields and serverMemo, html present alike and differing at most in the id
\* stamped on it.
IdOnlyEchoed ==
    Served =>
        \A id \in ClientIds, q \in RangeOrders(DOMAIN Pre) :
            LET alt == livewireUpdate(livewireComponentByName, WithId(Msg, id),
                                      [range |-> q, child |-> last.drawn])
            IN /\ alt.kind = Out.kind
               /\ alt.err = Out.err
               /\ alt.calls = Out.calls
               /\ Out.kind = "ok" =>
                     LET a == alt.resp[1].effects
                         e == Resp.effects
                     IN /\ alt.resp[1].serverMemo = Resp.serverMemo
                        /\ Range(a.dirty) = Range(e.dirty)
                        /\ Len(a.html) = Len(e.html)
                        /\ Cardinality({k \in DOMAIN e.html : a.html[k] # e.html[k]})
                             <= Len(id)

\* a response with html to a message whose ids are not all the same
IdOnlyEchoedSeen ==
    /\ Responded
    /\ Msg.fingerprint.id = <<66>>
    /\ Msg.updates = <<Call("Increment")>>
    /\ Msg.updates[1].payload.id # Msg.fingerprint.id
    /\ Resp.effects.html # <<>>

\* C20: every serverMemo the server issues carries the hash of the markup
\* rendered from its data, before stamping; so a client that echoes the
\* serverMemo it was last given, with no updates, gets dirty empty and no html.
SnapshotConsistent ==
    /\ (Rendered /\ last.op = "initial" /\ Page.err = "") =>
          Page.envelope.serverMemo.htmlHash = htmlHash(Page.out)
    /\ Responded => Resp.serverMemo.htmlHash = htmlHash(Out.out)
    /\ (Served /\ last.origin \in {"initial", "update"} /\ Msg.updates = <<>>) =>
          /\ Out.kind = "ok"
          /\ SameHash
          /\ Resp.effects.dirty = <<>>
          /\ Resp.effects.html = <<>>

\* the lowercase hexadecimal digits
HexDigits == {48 + d : d \in 0..9} \cup {97 + d : d \in 0..5}

IsToken(t) == Len(t) = 8 /\ \A i \in DOMAIN t : t[i] \in HexDigits

\* the positions at which two fragments of one length differ
Differing(a, b) == {i \in DOMAIN a : a[i] # b[i]}

\* C13 as stated: the token is 8 hex digits, identical fragments get the same
\* token, and fragments that differ in at least one byte get different tokens.
HashInjective ==
    token # <<>> =>
        /\ IsToken(token[1]) /\ IsToken(token[2])
        /\ markup[1] = markup[2] => token[1] = token[2]
        /\ markup[1] # markup[2] => token[1] # token[2]

\* C13: the token is 8 hex digits, identical fragments get the same token, and
\* fragments of one length that differ in exactly one byte get different
\* tokens.
HashStable ==
    token # <<>> =>
        /\ IsToken(token[1]) /\ IsToken(token[2])
        /\ markup[1] = markup[2] => token[1] = token[2]
        /\ (/\ Len(markup[1]) = Len(markup[2])
            /\ Cardinality(Differing(markup[1], markup[2])) = 1)
              => token[1] # token[2]

\* plumless and plumlesz, hashed: the last byte differs and so do the tokens
HashStableSeen ==
    /\ token # <<>>
    /\ markup = << <<112, 108, 117, 109, 108, 101, 115, 115>>,
                   <<112, 108, 117, 109, 108, 101, 115, 122>> >>
    /\ token[1] = <<52, 100, 100, 98, 48, 99, 50, 53>>
    /\ token[1] # token[2]

\* C15: the registry stays as NewHTMLRenderer built it, and a livewireUpdate
\* that ran while other calls were in progress returns what it returns run alone
\* on its message.
ParallelAsAlone ==
    /\ livewireComponentByName \in {[n \in S |-> n] : S \in ComponentLists}
    /\ \A s \in Slots :
          (inflight[s].pc = "done" /\ inflight[s].op = "update") =>
              \E rnd \in UpdateChoices(inflight[s].message[1]) :
                  inflight[s].result[1]
                    = livewireUpdate(livewireComponentByName, inflight[s].message[1], rnd)

\* one call has answered two Increments with count 2 while the other, with
\* another message, is in the middle of its loop
ParallelAsAloneSeen ==
    /\ inflight["g2"].pc = "done"
    /\ inflight["g2"].op = "update"
    /\ Len(inflight["g2"].message[1].updates) = 2
    /\ inflight["g2"].result[1].kind = "ok"
    /\ inflight["g2"].result[1].resp[1].serverMemo.data["count"] = JNum(2)
    /\ inflight["g1"].pc = "loop"
    /\ inflight["g1"].i = 2
    /\ inflight["g1"].data["Note"] = JStr(<<97>>)
====
